---- MODULE Spec2Model ----
(***************************************************************************)
(* osm2gzip: blobs of an *.osm.pbf file are decoded in parallel (rayon     *)
(* par_bridge + try_for_each); every data block is written through an      *)
(* ElementSink borrowed from a mutex-guarded pool; a sink starts a new     *)
(* gzip file every MAX_ELEMENTS_COUNT elements; main finishes the pooled   *)
(* sinks at the end.  Source: src/src/main.rs.                             *)
(***************************************************************************)
EXTENDS Integers, Sequences, FiniteSets, TLC

(* ------------------------------ bounds -------------------------------- *)
\* worker threads of the rayon pool
NumWorkers == 2
\* blobs in the input file
MaxBlocks == 2
\* injected I/O errors (File::create, writeln!, finish) in one run
MaxFaults == 1
\* The source rotates after 100_000 elements (main.rs:18); the model runs
\* the same comparison against this scaled value so that rotation happens.
ScaledThreshold == 3

(* --------------------------- program constants ------------------------ *)
MAX_ELEMENTS_COUNT == ScaledThreshold
\* elements in one data block: up to one more than a sink's file takes
MaxBlockLen == MAX_ELEMENTS_COUNT + 1
\* {:05} in the format string of new_file_path
PathWidth == 5
\* main's name as a lock holder (closure calls are named by their blob)
MainThread == 0

Workers == 1..NumWorkers

(* ------------------------------ input --------------------------------- *)
Kinds == <<"Node", "DenseNode", "Way", "Relation">>

\* the i-th element of a data block: its variant and its id
ElemAt(i) == [kind |-> Kinds[((i - 1) % Len(Kinds)) + 1], id |-> i]

DataBlock(k) == [type |-> "OsmData", elems |-> [i \in 1..k |-> ElemAt(i)]]

\* what the reader yields: a header blob, a data blob, or a blob whose
\* read or decode returns Err
BlockShapes ==
    {[type |-> "OsmHeader", elems |-> <<>>], [type |-> "Corrupt", elems |-> <<>>]}
        \cup {DataBlock(k) : k \in 0..MaxBlockLen}

Inputs == UNION {[1..n -> BlockShapes] : n \in 0..MaxBlocks}

(* --------------------------- pure functions --------------------------- *)
RECURSIVE Digits(_)
Digits(n) == IF n < 10 THEN <<n>> ELSE Append(Digits(n \div 10), n % 10)

RECURSIVE ZeroPad(_)
ZeroPad(s) == IF Len(s) >= PathWidth THEN s ELSE ZeroPad(<<0>> \o s)

\* format!("elements_{:05}.txt.gz", num): the decimal digits of num, zero
\* padded to five, between a fixed prefix and suffix
FormatPath(num) == <<"elements_">> \o ZeroPad(Digits(num)) \o <<".txt.gz">>

\* the word written for an element: both node variants print "node"
KindWord(kind) ==
    CASE kind = "Node" -> "node"
      [] kind = "DenseNode" -> "node"
      [] kind = "Way" -> "way"
      [] kind = "Relation" -> "relation"

\* writeln!(self.writer, "<word> {}", id)
Line(e) == <<KindWord(e.kind), e.id>>

NoPath == <<>>

VARIABLES
    blocks,     \* the blobs of the input file, in file order
    nworkers,   \* threads of the rayon pool
    next,       \* index of the next blob the bridged iterator yields
    full,       \* try_for_each's short-circuit flag
    pc,         \* per blob: position of the closure call that processes it
    idx,        \* per blob: index of the element being appended
    held,       \* per blob: the sink its closure owns (0: none)
    caller,     \* per blob: who called new_file_path ("new" | "cycle")
    path,       \* per blob: the path new_file_path formatted
    spare,      \* per blob: the local `writer` of increment_and_cycle
    sinks,      \* every ElementSink ever constructed
    pool,       \* sinkpool: the idle sinks
    filenum,    \* the shared file counter
    poolLock,   \* closures (or main) inside sinkpool.lock()
    numLock,    \* closures inside filenum.lock()
    files,      \* path -> the gzip stream created at that path
    issued,     \* paths returned by new_file_path, in order
    faults,     \* I/O errors injected so far
    mainpc,     \* position of main
    result,     \* what main returned
    acquired,   \* per blob: returns of get_sink_from_pool with a sink
    released    \* per blob: calls of add_sink_to_pool

vars == <<blocks, nworkers, next, full, pc, idx, held, caller, path, spare, sinks,
          pool, filenum, poolLock, numLock, files, issued, faults, mainpc, result,
          acquired, released>>

input == <<blocks, nworkers>>
locals == <<idx, held, caller, path, spare>>
checkouts == <<acquired, released>>

Blobs == 1..MaxBlocks

Init ==
    /\ blocks \in Inputs
    /\ nworkers \in Workers
    /\ next = 1
    /\ full = FALSE
    /\ pc = [b \in Blobs |-> "todo"]
    /\ idx = [b \in Blobs |-> 0]
    /\ held = [b \in Blobs |-> 0]
    /\ caller = [b \in Blobs |-> "none"]
    /\ path = [b \in Blobs |-> NoPath]
    /\ spare = [b \in Blobs |-> NoPath]
    /\ sinks = <<>>
    /\ pool = <<>>
    /\ filenum = 0
    /\ poolLock = {}
    /\ numLock = {}
    /\ files = <<>>
    /\ issued = <<>>
    /\ faults = 0
    /\ mainpc = "par"
    /\ result = "running"
    /\ acquired = [b \in Blobs |-> 0]
    /\ released = [b \in Blobs |-> 0]

(* ------------------------------ helpers ------------------------------- *)
\* a lock that excludes nobody
CanLockAlways(lock) == TRUE

\* Mutex::lock returns only when no thread holds the guard
CanLock(lock) == lock = {}

\* File::create + GzEncoder::new: a fresh, empty stream (an existing file
\* at that path is truncated)
NewStream(s) == [recs |-> <<>>, state |-> "open", fin |-> 0, sink |-> s]

Created(p, s) == (p :> NewStream(s)) @@ files

\* dropping a GzEncoder that was not finished
DropStream(fs, p) ==
    IF fs[p].state = "open" THEN [fs EXCEPT ![p].state = "dropped"] ELSE fs

\* a sink that outlives the closure that returned Err
DropSinkKeeps(s) == sinks

\* an ElementSink going out of scope when its closure returns Err
DropSink(s) == [sinks EXCEPT ![s].state = "dropped"]

CanFault == faults < MaxFaults

Elems(b) == blocks[b].elems

\* a pool of threads that takes a new blob while all its threads are busy
RunningUncounted == {}

\* blobs a thread is busy with: their closure has started and try_for_each
\* has not yet taken its result
Running == {b \in Blobs : pc[b] \notin {"todo", "ok", "err"}}

\* blobs whose closure returned Err
Failed == {b \in Blobs : pc[b] \in {"failed", "err"}}

(* ------------------------- the parallel closure ----------------------- *)
\* the closure's locals go out of scope when it returns
Return(b) ==
    /\ idx' = [idx EXCEPT ![b] = 0]
    /\ held' = [held EXCEPT ![b] = 0]
    /\ caller' = [caller EXCEPT ![b] = "none"]
    /\ path' = [path EXCEPT ![b] = NoPath]
    /\ spare' = [spare EXCEPT ![b] = NoPath]

\* a `?` inside the closure returns Err for the blob
ReturnErr(b) ==
    /\ pc' = [pc EXCEPT ![b] = "failed"]
    /\ Return(b)

\* a for_each that does not short-circuit
TakesAlways == TRUE

\* whether try_for_each still takes items from the bridged iterator
Takes == ~full

\* par_bridge hands the next blob, in file order, to a thread that is not
\* running the closure, unless try_for_each has seen an Err
Dispatch(b) ==
    /\ mainpc = "par"
    /\ b = next
    /\ b <= Len(blocks)
    /\ Cardinality(Running) < nworkers
    /\ Takes
    /\ next' = next + 1
    /\ pc' = [pc EXCEPT ![b] = "decode"]
    /\ UNCHANGED <<input, checkouts, full, locals, sinks, pool, filenum, poolLock, numLock,
                   files, issued, faults, mainpc, result>>

\* blob?.decode()? and the if-let on BlobDecode::OsmData
Decode(b) ==
    /\ pc[b] = "decode"
    /\ CASE blocks[b].type = "Corrupt" ->
              ReturnErr(b)
         [] blocks[b].type = "OsmData" ->
              /\ pc' = [pc EXCEPT ![b] = "gs_lock"]
              /\ UNCHANGED locals
         [] OTHER ->
              /\ pc' = [pc EXCEPT ![b] = "ok"]
              /\ Return(b)
    /\ UNCHANGED <<input, checkouts, next, full, sinks, pool, filenum, poolLock, numLock,
                   files, issued, faults, mainpc, result>>

\* get_sink_from_pool: sinkpool.lock()
GetSinkLock(b) ==
    /\ pc[b] = "gs_lock"
    /\ CanLock(poolLock)
    /\ poolLock' = poolLock \cup {b}
    /\ pc' = [pc EXCEPT ![b] = "gs_pop"]
    /\ UNCHANGED <<input, checkouts, next, full, locals, sinks, pool, filenum, numLock,
                   files, issued, faults, mainpc, result>>

\* a pop that hands out the last sink and leaves it in the vector
PopKeep(p) == p

\* what pool.pop() leaves in the vector
PopRest(p) == SubSeq(p, 1, Len(p) - 1)

\* a get_sink_from_pool that waits for a sink to come back once one exists
GetSinkPopWaits(b) ==
    /\ pc[b] = "gs_pop"
    /\ pool # <<>> \/ sinks = <<>>
    /\ poolLock' = poolLock \ {b}
    /\ IF pool # <<>>
          THEN /\ held' = [held EXCEPT ![b] = pool[Len(pool)]]
               /\ pool' = PopRest(pool)
               /\ idx' = [idx EXCEPT ![b] = 1]
               /\ pc' = [pc EXCEPT ![b] = "loop"]
               /\ acquired' = [acquired EXCEPT ![b] = @ + 1]
               /\ UNCHANGED caller
          ELSE /\ caller' = [caller EXCEPT ![b] = "new"]
               /\ pc' = [pc EXCEPT ![b] = "nfp_lock"]
               /\ UNCHANGED <<held, pool, idx, acquired>>
    /\ UNCHANGED <<input, released, next, full, path, spare, sinks, filenum, numLock,
                   files, issued, faults, mainpc, result>>

\* a get_sink_from_pool whose guard lives on when the vector is empty
GetSinkPopHolding(b) ==
    /\ pc[b] = "gs_pop"
    /\ IF pool # <<>>
          THEN /\ held' = [held EXCEPT ![b] = pool[Len(pool)]]
               /\ pool' = PopRest(pool)
               /\ idx' = [idx EXCEPT ![b] = 1]
               /\ pc' = [pc EXCEPT ![b] = "loop"]
               /\ acquired' = [acquired EXCEPT ![b] = @ + 1]
               /\ poolLock' = poolLock \ {b}
               /\ UNCHANGED caller
          ELSE /\ caller' = [caller EXCEPT ![b] = "new"]
               /\ pc' = [pc EXCEPT ![b] = "nfp_lock"]
               /\ UNCHANGED <<held, pool, idx, acquired, poolLock>>
    /\ UNCHANGED <<input, released, next, full, path, spare, sinks, filenum, numLock,
                   files, issued, faults, mainpc, result>>

\* get_sink_from_pool: pool.pop(); the guard is dropped on both paths
GetSinkPop(b) ==
    /\ pc[b] = "gs_pop"
    /\ poolLock' = poolLock \ {b}
    /\ IF pool # <<>>
          THEN /\ held' = [held EXCEPT ![b] = pool[Len(pool)]]
               /\ pool' = PopRest(pool)
               /\ idx' = [idx EXCEPT ![b] = 1]
               /\ pc' = [pc EXCEPT ![b] = "loop"]
               /\ acquired' = [acquired EXCEPT ![b] = @ + 1]
               /\ UNCHANGED caller
          ELSE /\ caller' = [caller EXCEPT ![b] = "new"]
               /\ pc' = [pc EXCEPT ![b] = "nfp_lock"]
               /\ UNCHANGED <<held, pool, idx, acquired>>
    /\ UNCHANGED <<input, released, next, full, path, spare, sinks, filenum, numLock,
                   files, issued, faults, mainpc, result>>

\* new_file_path: filenum.lock()
NfpLock(b) ==
    /\ pc[b] = "nfp_lock"
    /\ CanLock(numLock)
    /\ numLock' = numLock \cup {b}
    /\ pc' = [pc EXCEPT ![b] = "nfp_read"]
    /\ UNCHANGED <<input, checkouts, next, full, locals, sinks, pool, filenum, poolLock,
                   files, issued, faults, mainpc, result>>

\* new_file_path: let path = format!(.., num)
NfpRead(b) ==
    /\ pc[b] = "nfp_read"
    /\ path' = [path EXCEPT ![b] = FormatPath(filenum)]
    /\ pc' = [pc EXCEPT ![b] = "nfp_inc"]
    /\ UNCHANGED <<input, checkouts, next, full, idx, held, caller, spare, sinks, pool,
                   filenum, poolLock, numLock, files, issued, faults, mainpc, result>>

\* a counter that is not advanced
NextNumStuck(num) == num

\* *num += 1
NextNum(num) == num + 1

\* new_file_path: *num += 1; path is returned and the guard dropped
NfpInc(b) ==
    /\ pc[b] = "nfp_inc"
    /\ filenum' = NextNum(filenum)
    /\ issued' = Append(issued, path[b])
    /\ numLock' = numLock \ {b}
    /\ pc' = [pc EXCEPT ![b] = "create"]
    /\ UNCHANGED <<input, checkouts, next, full, locals, sinks, pool, poolLock,
                   files, faults, mainpc, result>>

\* File::create(path)? in ElementSink::new (a new sink) and in
\* increment_and_cycle (the local `writer`)
Create(b) ==
    /\ pc[b] = "create"
    /\ \/ /\ caller[b] = "new"
          /\ files' = Created(path[b], Len(sinks) + 1)
          /\ sinks' = Append(sinks, [writer |-> path[b], num_elements |-> 0,
                                     state |-> "live"])
          /\ held' = [held EXCEPT ![b] = Len(sinks) + 1]
          /\ idx' = [idx EXCEPT ![b] = 1]
          /\ path' = [path EXCEPT ![b] = NoPath]
          /\ caller' = [caller EXCEPT ![b] = "none"]
          /\ pc' = [pc EXCEPT ![b] = "loop"]
          /\ acquired' = [acquired EXCEPT ![b] = @ + 1]
          /\ UNCHANGED <<spare, faults>>
       \/ /\ caller[b] = "cycle"
          /\ files' = Created(path[b], held[b])
          /\ spare' = [spare EXCEPT ![b] = path[b]]
          /\ path' = [path EXCEPT ![b] = NoPath]
          /\ caller' = [caller EXCEPT ![b] = "none"]
          /\ pc' = [pc EXCEPT ![b] = "swap"]
          /\ UNCHANGED <<sinks, held, idx, faults, acquired>>
       \/ /\ CanFault
          /\ faults' = faults + 1
          /\ IF caller[b] = "cycle"
                THEN /\ files' = DropStream(files, sinks[held[b]].writer)
                     /\ sinks' = DropSink(held[b])
                ELSE UNCHANGED <<files, sinks>>
          /\ ReturnErr(b)
          /\ UNCHANGED acquired
    /\ UNCHANGED <<input, released, next, full, pool, filenum, poolLock, numLock, issued,
                   mainpc, result>>

\* a write that puts the line in front of the stream's earlier lines
WrittenInFront(b) ==
    [files EXCEPT ![sinks[held[b]].writer].recs =
        <<[line |-> Line(Elems(b)[idx[b]]), b |-> b, i |-> idx[b]]>> \o @]

\* the stream an element's line goes to, with the line added
Written(b) ==
    [files EXCEPT ![sinks[held[b]].writer].recs =
        Append(@, [line |-> Line(Elems(b)[idx[b]]), b |-> b, i |-> idx[b]])]

\* for elem in block.elements(): writeln!(self.writer, ..)? of add_node,
\* add_dense_node, add_way, add_relation
Write(b) ==
    /\ pc[b] = "loop"
    /\ idx[b] <= Len(Elems(b))
    /\ \/ /\ files' = Written(b)
          /\ pc' = [pc EXCEPT ![b] = "incr"]
          /\ UNCHANGED <<sinks, locals, faults>>
       \/ /\ CanFault
          /\ faults' = faults + 1
          /\ files' = DropStream(files, sinks[held[b]].writer)
          /\ sinks' = DropSink(held[b])
          /\ ReturnErr(b)
    /\ UNCHANGED <<input, checkouts, next, full, pool, filenum, poolLock, numLock, issued,
                   mainpc, result>>

\* a test that lets one element too many into a file
MustCycleLate(n) == n > MAX_ELEMENTS_COUNT

\* a test that rotates one element too early
MustCycleEarly(n) == n + 1 >= MAX_ELEMENTS_COUNT

\* the test of increment_and_cycle
MustCycle(n) == n >= MAX_ELEMENTS_COUNT

\* increment_and_cycle: self.num_elements += 1 and the threshold test
Incr(b) ==
    /\ pc[b] = "incr"
    /\ sinks' = [sinks EXCEPT ![held[b]].num_elements = @ + 1]
    /\ IF MustCycle(sinks[held[b]].num_elements + 1)
          THEN /\ caller' = [caller EXCEPT ![b] = "cycle"]
               /\ pc' = [pc EXCEPT ![b] = "nfp_lock"]
               /\ UNCHANGED idx
          ELSE /\ idx' = [idx EXCEPT ![b] = @ + 1]
               /\ pc' = [pc EXCEPT ![b] = "loop"]
               /\ UNCHANGED caller
    /\ UNCHANGED <<input, checkouts, next, full, held, path, spare, pool, filenum,
                   poolLock, numLock, files, issued, faults, mainpc, result>>

\* a rotation that leaves the old stream in the sink
SwapKeeps(b) ==
    /\ pc[b] = "swap"
    /\ pc' = [pc EXCEPT ![b] = "finish"]
    /\ UNCHANGED <<input, checkouts, next, full, locals, sinks, pool,
                   filenum, poolLock, numLock, files, issued, faults, mainpc, result>>

\* increment_and_cycle: std::mem::swap(&mut writer, &mut self.writer)
Swap(b) ==
    /\ pc[b] = "swap"
    /\ spare' = [spare EXCEPT ![b] = sinks[held[b]].writer]
    /\ sinks' = [sinks EXCEPT ![held[b]].writer = spare[b]]
    /\ pc' = [pc EXCEPT ![b] = "finish"]
    /\ UNCHANGED <<input, checkouts, next, full, idx, held, caller, path, pool,
                   filenum, poolLock, numLock, files, issued, faults, mainpc, result>>

\* writer.finish()?.flush()? on a stream
Finished(fs, p) == [fs EXCEPT ![p].state = "finished", ![p].fin = @ + 1]

\* a finish() that returned Err: the stream is consumed, not completed
Broken(fs, p) == [fs EXCEPT ![p].state = "broken"]

\* a rotation that finishes the stream the sink now writes to
FinishCurrent(b) ==
    /\ pc[b] = "finish"
    /\ files' = Finished(files, sinks[held[b]].writer)
    /\ pc' = [pc EXCEPT ![b] = "reset"]
    /\ UNCHANGED <<input, checkouts, next, full, locals, sinks, pool, filenum,
                   poolLock, numLock, issued, faults, mainpc, result>>

\* increment_and_cycle: writer.finish()?.flush()? on the retired writer
Finish(b) ==
    /\ pc[b] = "finish"
    /\ \/ /\ files' = Finished(files, spare[b])
          /\ pc' = [pc EXCEPT ![b] = "reset"]
          /\ UNCHANGED <<sinks, locals, faults>>
       \/ /\ CanFault
          /\ faults' = faults + 1
          /\ files' = DropStream(Broken(files, spare[b]), sinks[held[b]].writer)
          /\ sinks' = DropSink(held[b])
          /\ ReturnErr(b)
    /\ UNCHANGED <<input, checkouts, next, full, pool, filenum, poolLock, numLock, issued,
                   mainpc, result>>

\* a rotation that leaves the counter at the threshold
ResetKeepsCount(b) ==
    /\ pc[b] = "reset"
    /\ spare' = [spare EXCEPT ![b] = NoPath]
    /\ idx' = [idx EXCEPT ![b] = @ + 1]
    /\ pc' = [pc EXCEPT ![b] = "loop"]
    /\ UNCHANGED <<input, checkouts, next, full, held, caller, path, pool, filenum, sinks,
                   poolLock, numLock, files, issued, faults, mainpc, result>>

\* increment_and_cycle: self.num_elements = 0, and back to the for loop
Reset(b) ==
    /\ pc[b] = "reset"
    /\ sinks' = [sinks EXCEPT ![held[b]].num_elements = 0]
    /\ spare' = [spare EXCEPT ![b] = NoPath]
    /\ idx' = [idx EXCEPT ![b] = @ + 1]
    /\ pc' = [pc EXCEPT ![b] = "loop"]
    /\ UNCHANGED <<input, checkouts, next, full, held, caller, path, pool, filenum,
                   poolLock, numLock, files, issued, faults, mainpc, result>>

\* the for loop is over: add_sink_to_pool's sinkpool.lock()
AddSinkLock(b) ==
    /\ pc[b] = "loop"
    /\ idx[b] > Len(Elems(b))
    /\ CanLock(poolLock)
    /\ poolLock' = poolLock \cup {b}
    /\ pc' = [pc EXCEPT ![b] = "as_push"]
    /\ UNCHANGED <<input, checkouts, next, full, locals, sinks, pool, filenum, numLock,
                   files, issued, faults, mainpc, result>>

\* a release that forgets the sink
PushedNothing(p, s) == p

\* what pool.push(sink) leaves in the vector
Pushed(p, s) == Append(p, s)

\* add_sink_to_pool: pool.push(sink); the closure returns Ok(())
AddSinkPush(b) ==
    /\ pc[b] = "as_push"
    /\ pool' = Pushed(pool, held[b])
    /\ poolLock' = poolLock \ {b}
    /\ pc' = [pc EXCEPT ![b] = "ok"]
    /\ Return(b)
    /\ released' = [released EXCEPT ![b] = @ + 1]
    /\ UNCHANGED <<input, acquired, next, full, sinks, filenum, numLock, files, issued,
                   faults, mainpc, result>>

\* the closure returned Err: try_for_each records it and takes no new item
Propagate(b) ==
    /\ pc[b] = "failed"
    /\ full' = TRUE
    /\ pc' = [pc EXCEPT ![b] = "err"]
    /\ UNCHANGED <<input, checkouts, next, locals, sinks, pool, filenum, poolLock,
                   numLock, files, issued, faults, mainpc, result>>

(* -------------------------------- main -------------------------------- *)
RECURSIVE DropAll(_, _)
\* the pooled sinks going out of scope when main returns
DropAll(fs, ss) ==
    IF ss = <<>> THEN fs
    ELSE DropAll(DropStream(fs, sinks[Head(ss)].writer), Tail(ss))

\* the sinks of the vector, dropped with it
Abandoned(ss) ==
    [s \in DOMAIN sinks |->
        IF \E k \in DOMAIN ss : ss[k] = s THEN [sinks[s] EXCEPT !.state = "abandoned"]
        ELSE sinks[s]]

\* the result of try_for_each ignored
AbortsNever == FALSE

\* whether the `?` after try_for_each returns from main
Aborts == Failed # {}

\* try_for_each(..)?: every thread is done; an Err leaves main at once
Join ==
    /\ mainpc = "par"
    /\ \A b \in Blobs : pc[b] \in {"todo", "ok", "err"}
    /\ full \/ next > Len(blocks)
    /\ IF Aborts
          THEN /\ result' = "err"
               /\ mainpc' = "done"
               /\ files' = DropAll(files, pool)
               /\ sinks' = Abandoned(pool)
               /\ pool' = <<>>
          ELSE /\ mainpc' = "drain_lock"
               /\ UNCHANGED <<result, files, sinks, pool>>
    /\ UNCHANGED <<input, checkouts, next, full, pc, locals, filenum, poolLock, numLock,
                   issued, faults>>

\* the final block: sinkpool.lock()
DrainLock ==
    /\ mainpc = "drain_lock"
    /\ CanLock(poolLock)
    /\ poolLock' = poolLock \cup {MainThread}
    /\ mainpc' = "drain"
    /\ UNCHANGED <<input, checkouts, next, full, pc, locals, sinks, pool, filenum, numLock,
                   files, issued, faults, result>>

\* for sink in pool.drain(..) { sink.writer.finish()?.flush()? }, one sink
\* per step from the front; Ok(()) when the vector is empty
Drain ==
    /\ mainpc = "drain"
    /\ \/ /\ pool = <<>>
          /\ poolLock' = poolLock \ {MainThread}
          /\ result' = "ok"
          /\ mainpc' = "done"
          /\ UNCHANGED <<files, sinks, pool, faults>>
       \/ /\ pool # <<>>
          /\ files' = Finished(files, sinks[Head(pool)].writer)
          /\ sinks' = [sinks EXCEPT ![Head(pool)].state = "drained"]
          /\ pool' = Tail(pool)
          /\ UNCHANGED <<poolLock, result, mainpc, faults>>
       \/ /\ pool # <<>>
          /\ CanFault
          /\ faults' = faults + 1
          /\ files' = DropAll(Broken(files, sinks[Head(pool)].writer), Tail(pool))
          /\ sinks' = Abandoned(pool)
          /\ pool' = <<>>
          /\ poolLock' = poolLock \ {MainThread}
          /\ result' = "err"
          /\ mainpc' = "done"
    /\ UNCHANGED <<input, checkouts, next, full, pc, locals, filenum, numLock, issued>>

Next ==
    \/ \E b \in Blobs :
          \/ Dispatch(b)
          \/ Decode(b)
          \/ GetSinkLock(b)
          \/ GetSinkPop(b)
          \/ NfpLock(b)
          \/ NfpRead(b)
          \/ NfpInc(b)
          \/ Create(b)
          \/ Write(b)
          \/ Incr(b)
          \/ Swap(b)
          \/ Finish(b)
          \/ Reset(b)
          \/ AddSinkLock(b)
          \/ AddSinkPush(b)
          \/ Propagate(b)
    \/ Join
    \/ DrainLock
    \/ Drain

Spec == Init /\ [][Next]_vars

\* the steps of get_sink_from_pool, ElementSink::new included
AcquireStep(b) ==
    \/ GetSinkLock(b)
    \/ GetSinkPop(b)
    \/ caller[b] = "new" /\ (NfpLock(b) \/ NfpRead(b) \/ NfpInc(b) \/ Create(b))

\* the steps a closure takes while it holds a lock
CriticalStep(b) == GetSinkPop(b) \/ AddSinkPush(b) \/ NfpRead(b) \/ NfpInc(b)

\* Threads inside get_sink_from_pool or inside a critical section keep
\* running; nothing is assumed of a thread that is appending to its sink.
FairAcquire ==
    Spec /\ \A b \in Blobs : WF_vars(AcquireStep(b)) /\ WF_vars(CriticalStep(b))

\* every step of the closure called for blob b
ClosureStep(b) ==
    \/ Decode(b) \/ GetSinkLock(b) \/ GetSinkPop(b)
    \/ NfpLock(b) \/ NfpRead(b) \/ NfpInc(b) \/ Create(b)
    \/ Write(b) \/ Incr(b) \/ Swap(b) \/ Finish(b) \/ Reset(b)
    \/ AddSinkLock(b) \/ AddSinkPush(b) \/ Propagate(b)

\* the steps of the main thread after the parallel loop
MainStep == Join \/ DrainLock \/ Drain

\* Every thread keeps running: a blob is handed out when a thread is free,
\* a closure that can step does, and so does main.
FairSpec ==
    /\ Spec
    /\ \A b \in Blobs : WF_vars(Dispatch(b)) /\ WF_vars(ClosureStep(b))
    /\ WF_vars(MainStep)

(* ------------------------- what the claims speak of ------------------- *)
Done == mainpc = "done"

\* positions of the elements of the input's data blocks
InPos == {x \in Blobs \X (1..MaxBlockLen) :
             /\ x[1] \in DOMAIN blocks
             /\ x[2] \in DOMAIN blocks[x[1]].elems}

\* positions of the lines in the output files
OutPos == {y \in (DOMAIN files) \X (1..(MAX_ELEMENTS_COUNT + 1)) :
              y[2] \in DOMAIN files[y[1]].recs}

OutRec(y) == files[y[1]].recs[y[2]]

InCount(l) == Cardinality({x \in InPos : Line(blocks[x[1]].elems[x[2]]) = l})

OutCount(l) == Cardinality({y \in OutPos : OutRec(y).line = l})

AllLines == {Line(blocks[x[1]].elems[x[2]]) : x \in InPos}
                \cup {OutRec(y).line : y \in OutPos}

\* the number new_file_path formatted into path p
PathNum(p) == CHOOSE n \in 0..filenum : FormatPath(n) = p

DataBlobs == {b \in DOMAIN blocks : blocks[b].type = "OsmData"}

LiveSinks == {s \in DOMAIN sinks : sinks[s].state = "live"}

InPool(s) == {k \in DOMAIN pool : pool[k] = s}

Holders(s) == {b \in Blobs : held[b] = s}

(* -------------------------------- C1 ---------------------------------- *)
\* C1: when main has returned and no closure returned Err, every line occurs
\* in the output files as many times as elements of the input's data blocks
\* print to it, and every element was written exactly once.
C1_RecordsPreserved ==
    (Done /\ Failed = {}) =>
        /\ \A l \in AllLines : OutCount(l) = InCount(l)
        /\ \A x \in InPos :
              Cardinality({y \in OutPos : OutRec(y).b = x[1] /\ OutRec(y).i = x[2]}) = 1

\* two data blocks with equal lines, written through two sinks
C1_Witness ==
    /\ Done /\ result = "ok"
    /\ Len(blocks) = MaxBlocks
    /\ \A b \in DOMAIN blocks : b \in DataBlobs /\ Len(blocks[b].elems) >= 2
    /\ Len(sinks) >= 2
    /\ \E l \in AllLines : OutCount(l) >= 2

FinishedFiles == {p \in DOMAIN files : files[p].state = "finished"}

\* C3 as stated: a finished file holds between 1 and MAX_ELEMENTS_COUNT
\* lines.
C3_ShardNeverEmpty ==
    \A p \in FinishedFiles :
        Len(files[p].recs) >= 1 /\ Len(files[p].recs) <= MAX_ELEMENTS_COUNT

\* C3 amended: a finished file holds at most MAX_ELEMENTS_COUNT lines: one
\* that a rotation finished holds exactly MAX_ELEMENTS_COUNT, one that the
\* final drain finished (it is still its sink's writer) holds fewer, and
\* possibly none.
C3_ShardSize ==
    \A p \in FinishedFiles :
        IF sinks[files[p].sink].writer = p
           THEN /\ sinks[files[p].sink].state = "drained"
                /\ Len(files[p].recs) < MAX_ELEMENTS_COUNT
           ELSE Len(files[p].recs) = MAX_ELEMENTS_COUNT

\* a rotation's file and the empty file opened by it, both finished
C3_Witness ==
    /\ Done /\ result = "ok"
    /\ \E p, q \in FinishedFiles :
          /\ Len(files[p].recs) = MAX_ELEMENTS_COUNT
          /\ Len(files[q].recs) = 0
          /\ files[p].sink = files[q].sink

(* -------------------------------- C4 ---------------------------------- *)
\* C4: the paths new_file_path has returned are, in the order of the calls,
\* those of 0, 1, .., n-1: distinct, increasing and without a gap, and the
\* counter is n whenever no thread is inside the lock.
C4_Allocator ==
    /\ \A k \in DOMAIN issued : issued[k] = FormatPath(k - 1)
    /\ \A j, k \in DOMAIN issued : j # k => issued[j] # issued[k]
    /\ numLock = {} => filenum = Len(issued)
    /\ Cardinality(numLock) <= 1

\* a thread waits for the counter lock while another formats its path
C4_Witness ==
    /\ Len(issued) >= 2
    /\ \E b, c \in Blobs : pc[b] = "nfp_inc" /\ pc[c] = "nfp_lock"

(* -------------------------------- C5 ---------------------------------- *)
\* C5: a live sink is at exactly one place, once in the pool or owned by one
\* closure, and nothing but live sinks is in the pool or owned.
C5_OnePlace ==
    /\ \A s \in LiveSinks : Cardinality(InPool(s)) + Cardinality(Holders(s)) = 1
    /\ \A k \in DOMAIN pool : pool[k] \in LiveSinks
    /\ \A b \in Blobs : held[b] # 0 => held[b] \in LiveSinks

\* a closure appends to the sink it owns while another sink, returned by
\* another closure, idles in the pool
C5_Witness ==
    \E b \in Blobs :
        /\ held[b] # 0
        /\ pc[b] = "incr"
        /\ pool # <<>>
        /\ Len(sinks) >= 2

(* -------------------------------- C6 ---------------------------------- *)
\* C6: once a closure has returned Err main never returns Ok and, when it
\* has returned, has returned Err; and once try_for_each has seen the Err no
\* further blob is taken from the iterator: the blobs not yet started stay so.
C6_FailureIsFatal ==
    /\ [](Failed # {} => result # "ok")
    /\ []((Done /\ Failed # {}) => result = "err")
    /\ [][full => /\ next' = next
                  /\ \A b \in Blobs : pc[b] = "todo" => pc'[b] = "todo"]_vars

\* an I/O error in one closure, a blob that was never started, and Err
C6_Witness ==
    /\ Done /\ result = "err"
    /\ faults > 0
    /\ Failed # {}
    /\ \E b \in DOMAIN blocks : pc[b] = "todo"

(* -------------------------------- C7 ---------------------------------- *)
\* every sink is idle in the pool, and a stream is open exactly when it is
\* a pooled sink's writer; the others were finished once
AllSinksHome ==
    /\ \A s \in DOMAIN sinks : sinks[s].state = "live" /\ Cardinality(InPool(s)) = 1
    /\ \A b \in Blobs : held[b] = 0
    /\ \A p \in DOMAIN files :
          IF \E s \in DOMAIN sinks : sinks[s].writer = p
             THEN files[p].state = "open" /\ files[p].fin = 0
             ELSE files[p].state = "finished" /\ files[p].fin = 1

\* every stream ever opened was finished exactly once and the pool is empty
AllFinishedOnce ==
    /\ \A p \in DOMAIN files : files[p].state = "finished" /\ files[p].fin = 1
    /\ pool = <<>>
    /\ LiveSinks = {}

C8_DrainOnAbort ==
    (Done /\ Failed # {}) =>
        \A s \in DOMAIN sinks :
            sinks[s].state \in {"abandoned", "drained"} =>
                files[sinks[s].writer].state = "finished"

(* -------------------------------- C9 ---------------------------------- *)
\* C9: with one thread, an input whose data blocks hold threshold + 1
\* elements in all ends, when main returns Ok, with exactly two files: the
\* first path with threshold lines and the second with one.
C9_ThresholdPlusOne ==
    (Done /\ result = "ok" /\ nworkers = 1
          /\ Cardinality(InPos) = MAX_ELEMENTS_COUNT + 1) =>
        /\ DOMAIN files = {FormatPath(0), FormatPath(1)}
        /\ Len(files[FormatPath(0)].recs) = MAX_ELEMENTS_COUNT
        /\ Len(files[FormatPath(1)].recs) = 1

\* threshold + 1 elements over two data blocks, neither empty
C9_Witness ==
    /\ Done /\ result = "ok" /\ nworkers = 1
    /\ Cardinality(InPos) = MAX_ELEMENTS_COUNT + 1
    /\ Len(blocks) >= 2
    /\ \A b \in DOMAIN blocks : b \in DataBlobs /\ Len(blocks[b].elems) >= 1

(* -------------------------------- C10 --------------------------------- *)
\* the input is header blobs and the one data block d
OnlyData(d) ==
    /\ d \in DataBlobs
    /\ \A b \in DOMAIN blocks : b # d => blocks[b].type = "OsmHeader"

\* the line the output format gives an element
Expected(e) ==
    <<IF e.kind \in {"Node", "DenseNode"} THEN "node"
      ELSE IF e.kind = "Way" THEN "way" ELSE "relation", e.id>>

\* C10: header blobs start nothing: their closure takes no lock, owns no
\* sink and ends Ok at once, and an input of header blobs alone creates no
\* sink and no file.  With one data block of n elements besides,
\* 1 <= n < threshold, no second file is ever created, and when main returns
\* Ok the one file holds the block's n lines in the block's order.
C10_OneDataBlock ==
    /\ \A b \in DOMAIN blocks :
          blocks[b].type = "OsmHeader" =>
              /\ pc[b] \in {"todo", "decode", "ok"}
              /\ held[b] = 0 /\ idx[b] = 0
              /\ b \notin poolLock \cup numLock
    /\ (\A b \in DOMAIN blocks : blocks[b].type = "OsmHeader") =>
          files = <<>> /\ sinks = <<>> /\ pool = <<>> /\ filenum = 0
    /\ \A d \in DOMAIN blocks :
          (OnlyData(d) /\ Len(blocks[d].elems) >= 1
                       /\ Len(blocks[d].elems) < MAX_ELEMENTS_COUNT) =>
              /\ DOMAIN files \subseteq {FormatPath(0)}
              /\ Len(sinks) <= 1
              /\ (Done /\ result = "ok") =>
                    /\ DOMAIN files = {FormatPath(0)}
                    /\ files[FormatPath(0)].recs =
                          [i \in 1..Len(blocks[d].elems) |->
                              [line |-> Expected(blocks[d].elems[i]), b |-> d, i |-> i]]

\* a header blob, then a data block of two elements, written to one file
C10_Witness ==
    /\ Done /\ result = "ok"
    /\ Len(blocks) = 2
    /\ blocks[1].type = "OsmHeader"
    /\ OnlyData(2) /\ Len(blocks[2].elems) = 2
    /\ Len(files[FormatPath(0)].recs) = 2

(* -------------------------------- C11 --------------------------------- *)
RECURSIVE LogFrom(_, _)
\* the lines appended through sink s to its files numbered n and up, in the
\* order of the appends (a sink's files are numbered in the order it opened
\* them)
LogFrom(s, n) ==
    IF n >= filenum THEN <<>>
    ELSE (IF FormatPath(n) \in DOMAIN files /\ files[FormatPath(n)].sink = s
             THEN files[FormatPath(n)].recs ELSE <<>>) \o LogFrom(s, n + 1)

\* every line ever appended through sink s, in order
SinkLog(s) == LogFrom(s, 0)

\* how many of block b's elements have been written
Appended(b) == Cardinality({y \in OutPos : OutRec(y).b = b})

\* the writeln! of element idx[b] has been executed
PastWrite(b) == pc[b] \in {"incr", "nfp_lock", "nfp_read", "nfp_inc", "create",
                           "swap", "finish", "reset"} /\ held[b] # 0

\* C11: a closure gets a sink at most once and hands it back at most once,
\* exactly once each when it returned Ok for a data block, and hands it back
\* only after the block's last element; on every sink the appends of one
\* block are consecutive, in the block's order from its first element, each
\* the line of its element, no element twice; while a closure owns a sink
\* the sink's latest appends are exactly the block's elements written so far.
C11_BlockOnOneSink ==
    /\ \A b \in Blobs :
          /\ acquired[b] <= 1 /\ released[b] <= acquired[b]
          /\ (b \in DataBlobs /\ pc[b] = "ok") => acquired[b] = 1 /\ released[b] = 1
          /\ released[b] = 1 => pc[b] = "ok" /\ Appended(b) = Len(Elems(b))
          /\ acquired[b] = 0 => Appended(b) = 0
          /\ (b \notin DataBlobs) => acquired[b] = 0
          /\ held[b] # 0 =>
                LET log == SinkLog(held[b])
                    n == Appended(b)
                IN  /\ acquired[b] = 1 /\ released[b] = 0
                    /\ n = IF PastWrite(b) THEN idx[b] ELSE idx[b] - 1
                    /\ n <= Len(log)
                    /\ \A k \in 1..n :
                          /\ log[Len(log) - n + k].b = b
                          /\ log[Len(log) - n + k].i = k
    /\ \A s \in DOMAIN sinks :
          LET log == SinkLog(s)
          IN  \A j \in DOMAIN log :
                 /\ log[j].line = Line(Elems(log[j].b)[log[j].i])
                 /\ \/ log[j].i = 1
                    \/ /\ j > 1
                       /\ log[j - 1].b = log[j].b
                       /\ log[j - 1].i = log[j].i - 1
    /\ \A y, z \in OutPos :
          (OutRec(y).b = OutRec(z).b /\ OutRec(y).i = OutRec(z).i) => y = z

\* two blocks appended one after the other through the same sink, the
\* second by a closure that still owns it and has crossed a rotation
C11_Witness ==
    \E b, c \in DataBlobs :
        /\ b # c
        /\ released[c] = 1
        /\ held[b] # 0
        /\ pc[b] = "loop"
        /\ Appended(b) >= 2 /\ Appended(c) >= 2
        /\ \A y \in OutPos : files[y[1]].sink = held[b]
        /\ \E y, z \in OutPos : OutRec(y).b = b /\ OutRec(z).b = b /\ y[1] # z[1]

(* -------------------------------- C12 --------------------------------- *)
\* the streams sink s has opened, its first included
SinkFiles(s) == {p \in DOMAIN files : files[p].sink = s}

\* the rotations sink s has gone through
Rotations(s) == Cardinality(SinkFiles(s)) - 1

\* no closure is inside an add_* call on sink s
Quiet(s) == \A b \in Blobs : held[b] = s => pc[b] \in {"loop", "as_push"}

\* sinks that did not meet an I/O error
Sound == {s \in DOMAIN sinks : sinks[s].state # "dropped"}

\* C12: a sink that has taken k appends since it was created and is not
\* inside an append has gone through exactly k \div MAX_ELEMENTS_COUNT
\* rotations, its current stream holds the k % MAX_ELEMENTS_COUNT lines
\* appended since the last rotation, and its counter is that number: after
\* MAX_ELEMENTS_COUNT appends one rotation, an empty stream and counter 0,
\* after one more append still one rotation, one line and counter 1.
C12_RotationCount ==
    \A s \in Sound :
        Quiet(s) =>
            LET k == Len(SinkLog(s))
            IN  /\ Rotations(s) = k \div MAX_ELEMENTS_COUNT
                /\ Len(files[sinks[s].writer].recs) = k % MAX_ELEMENTS_COUNT
                /\ sinks[s].num_elements = k % MAX_ELEMENTS_COUNT
                /\ k = MAX_ELEMENTS_COUNT =>
                      /\ Rotations(s) = 1
                      /\ files[sinks[s].writer].recs = <<>>
                      /\ sinks[s].num_elements = 0
                /\ k = MAX_ELEMENTS_COUNT + 1 =>
                      /\ Rotations(s) = 1
                      /\ Len(files[sinks[s].writer].recs) = 1
                      /\ sinks[s].num_elements = 1

\* one sink idle after exactly MAX_ELEMENTS_COUNT appends, another after one
\* more
C12_Witness ==
    \E s, t \in LiveSinks :
        /\ InPool(s) # {} /\ InPool(t) # {}
        /\ Len(SinkLog(s)) = MAX_ELEMENTS_COUNT
        /\ Len(SinkLog(t)) = MAX_ELEMENTS_COUNT + 1

\* a sink idle after two rotations, reused across two blocks
TwoRotations ==
    \E s \in LiveSinks :
        /\ InPool(s) # {}
        /\ Len(SinkLog(s)) = 2 * MAX_ELEMENTS_COUNT
        /\ Rotations(s) = 2

(* -------------------------------- C13 --------------------------------- *)
\* closure b is inside the `if` of increment_and_cycle
Cycling(b) ==
    /\ held[b] # 0
    /\ \/ caller[b] = "cycle"
       \/ pc[b] \in {"swap", "finish", "reset"}

\* the stream a rotation retires: the sink's writer until the swap, the
\* local `writer` after it
Retiring(b) ==
    IF pc[b] \in {"finish", "reset"} THEN spare[b] ELSE sinks[held[b]].writer

\* a stream as File::create left it
Fresh(p, s) ==
    /\ p \in DOMAIN files
    /\ files[p].recs = <<>>
    /\ files[p].state = "open"
    /\ files[p].sink = s

\* where a rotation stands, step by step
RotationStage(b) ==
    LET s == held[b]
        old == Retiring(b)
        recs == files[old].recs
    IN  /\ Len(recs) = MAX_ELEMENTS_COUNT
        /\ recs[Len(recs)].b = b /\ recs[Len(recs)].i = idx[b]
        /\ sinks[s].num_elements = MAX_ELEMENTS_COUNT
        /\ \A p \in SinkFiles(s) \ {old} :
              \/ files[p].state = "finished" /\ PathNum(p) < PathNum(old)
              \/ pc[b] \in {"swap", "finish", "reset"} /\ Fresh(p, s)
                    /\ PathNum(p) > PathNum(old)
        /\ CASE pc[b] \in {"nfp_lock", "nfp_read", "nfp_inc", "create"} ->
                  /\ sinks[s].writer = old /\ files[old].state = "open"
                  /\ spare[b] = NoPath
                  /\ \A p \in SinkFiles(s) : PathNum(p) <= PathNum(old)
             [] pc[b] = "swap" ->
                  /\ sinks[s].writer = old /\ files[old].state = "open"
                  /\ Fresh(spare[b], s) /\ spare[b] # old
             [] pc[b] = "finish" ->
                  /\ Fresh(sinks[s].writer, s) /\ sinks[s].writer # old
                  /\ files[old].state = "open" /\ files[old].fin = 0
             [] pc[b] = "reset" ->
                  /\ Fresh(sinks[s].writer, s) /\ sinks[s].writer # old
                  /\ files[old].state = "finished" /\ files[old].fin = 1

\* C13: inside a rotation the line that triggered it is already the last of
\* the old stream; the new path is allocated and the new stream created while
\* the old one is still the sink's writer and open; then the new, empty
\* stream is the sink's writer while the old one is still open; then the old
\* one is finished; the counter stays at MAX_ELEMENTS_COUNT until the last
\* step sets it to 0 and changes nothing else.  A finished stream is never
\* written or changed again.
C13_RotationOrder ==
    /\ [](\A b \in Blobs : Cycling(b) => RotationStage(b))
    /\ [][\A b \in Blobs :
             (pc[b] = "reset" /\ pc'[b] # "reset") =>
                 /\ sinks'[held[b]].num_elements = 0
                 /\ sinks'[held[b]].writer = sinks[held[b]].writer
                 /\ files' = files]_vars
    /\ [][\A p \in DOMAIN files :
             files[p].state = "finished" =>
                 p \in DOMAIN files' /\ files'[p] = files[p]]_vars

\* a rotation just before its last step: the old stream finished with the
\* triggering line last, the new one empty, the counter not yet reset
C13_Witness ==
    \E b \in Blobs :
        /\ pc[b] = "reset"
        /\ files[spare[b]].state = "finished"
        /\ files[spare[b]].recs[MAX_ELEMENTS_COUNT].b = b
        /\ idx[b] < Len(Elems(b))
        /\ files[sinks[held[b]].writer].recs = <<>>
        /\ Rotations(held[b]) = 2

(* -------------------------------- C14 --------------------------------- *)
\* streams that a rotation finished
RetiredFiles == {p \in FinishedFiles : sinks[files[p].sink].writer # p}

\* C14: a sink that is not inside an append, idle in the pool or owned
\* between two appends, has a counter equal to the number of lines in its
\* current stream, below MAX_ELEMENTS_COUNT; a stream that a rotation is
\* retiring or has retired holds exactly MAX_ELEMENTS_COUNT lines, at least
\* one.
C14_CounterIsStreamLength ==
    /\ \A s \in Sound :
          Quiet(s) =>
              /\ sinks[s].num_elements = Len(files[sinks[s].writer].recs)
              /\ sinks[s].num_elements < MAX_ELEMENTS_COUNT
    /\ \A k \in DOMAIN pool :
          /\ sinks[pool[k]].num_elements = Len(files[sinks[pool[k]].writer].recs)
          /\ sinks[pool[k]].num_elements < MAX_ELEMENTS_COUNT
    /\ \A b \in Blobs :
          Cycling(b) =>
              /\ Len(files[Retiring(b)].recs) = MAX_ELEMENTS_COUNT
              /\ Len(files[Retiring(b)].recs) >= 1
    /\ \A p \in RetiredFiles :
          Len(files[p].recs) = MAX_ELEMENTS_COUNT /\ Len(files[p].recs) >= 1

\* a sink that took two blocks from two closures rotates in the middle of
\* the second, its counter having been carried over in the pool
C14_Witness ==
    \E b, c \in DataBlobs :
        /\ b # c
        /\ released[c] = 1
        /\ Appended(c) < MAX_ELEMENTS_COUNT /\ Appended(c) >= 1
        /\ Cycling(b) /\ pc[b] = "finish"
        /\ idx[b] < MAX_ELEMENTS_COUNT
        /\ files[Retiring(b)].recs[1].b = c

(* -------------------------------- C15 --------------------------------- *)
\* closure b is in an I/O call: File::create, writeln!, finish/flush
AtIO(b) ==
    \/ pc[b] \in {"create", "finish"}
    \/ pc[b] = "loop" /\ idx[b] <= Len(Elems(b))

\* main is in the finish/flush of a pooled sink
MainAtIO == mainpc = "drain" /\ pool # <<>>

\* C15 as stated: no thread, main in its final block included, is in an I/O
\* call while it holds the pool lock or the counter lock.
C15_NoLockAcrossIO ==
    /\ \A b \in Blobs : AtIO(b) => b \notin (poolLock \cup numLock)
    /\ MainAtIO => MainThread \notin (poolLock \cup numLock)

\* C15 amended: no closure is in an I/O call while it holds a lock: a closure
\* holds the pool lock only for the pop or the push and the counter lock only
\* for format-and-increment; each lock has at most one holder.  main holds the
\* pool lock, never the counter lock, from the start of its final block to
\* its end, the finish of every pooled sink included, and only when no
\* closure is running.
C15_ClosuresNoLockAcrossIO ==
    /\ \A b \in Blobs :
          /\ AtIO(b) => b \notin (poolLock \cup numLock)
          /\ b \in poolLock <=> pc[b] \in {"gs_pop", "as_push"}
          /\ b \in numLock <=> pc[b] \in {"nfp_read", "nfp_inc"}
    /\ Cardinality(poolLock) <= 1 /\ Cardinality(numLock) <= 1
    /\ MainThread \notin numLock
    /\ MainThread \in poolLock <=> mainpc = "drain"
    /\ MainThread \in poolLock => Running = {}
    /\ MainAtIO => MainThread \in poolLock

\* one closure creates a file while another is inside the pool lock
C15_Witness ==
    \E b, c \in Blobs :
        /\ pc[b] = "create"
        /\ c \in poolLock
        /\ b \notin (poolLock \cup numLock)

(* -------------------------------- C16 --------------------------------- *)
\* closure b is inside get_sink_from_pool
Acquiring(b) ==
    \/ pc[b] \in {"gs_lock", "gs_pop"}
    \/ caller[b] = "new" /\ pc[b] \in {"nfp_lock", "nfp_read", "nfp_inc", "create"}

\* sinks owned by closures other than b
CheckedOutElsewhere(b) == {s \in DOMAIN sinks : \E c \in Blobs \ {b} : held[c] = s}

\* C16: get_sink_from_pool pops the vector's last sink under the pool lock
\* when there is one, and otherwise drops the lock and creates a new sink
\* outside it; inside get_sink_from_pool a closure waits for nothing but a
\* lock, and whoever holds that lock can step; so a closure that has entered
\* get_sink_from_pool gets a sink (or an I/O error) even if the closures that
\* own sinks never hand them back.
C16_AcquireNeverWaits ==
    /\ [][\A b \in Blobs :
             (pc[b] = "gs_pop" /\ pc'[b] # "gs_pop") =>
                 /\ b \in poolLock /\ b \notin poolLock'
                 /\ IF pool # <<>>
                       THEN /\ held'[b] = pool[Len(pool)]
                            /\ pool' = SubSeq(pool, 1, Len(pool) - 1)
                            /\ sinks' = sinks
                       ELSE /\ held'[b] = 0 /\ pool' = pool /\ sinks' = sinks
                            /\ caller'[b] = "new"]_vars
    /\ [][\A b \in Blobs :
             Len(sinks') > Len(sinks) /\ held'[b] = Len(sinks') =>
                 poolLock' = poolLock /\ b \notin poolLock]_vars
    /\ [](\A b \in Blobs :
             Acquiring(b) =>
                 \/ ENABLED AcquireStep(b)
                 \/ pc[b] = "gs_lock" /\ \E c \in Blobs \ {b} :
                       c \in poolLock /\ ENABLED CriticalStep(c)
                 \/ pc[b] = "nfp_lock" /\ \E c \in Blobs \ {b} :
                       c \in numLock /\ ENABLED CriticalStep(c))
    /\ \A b \in Blobs :
          (pc[b] = "gs_lock") ~> (acquired[b] = 1 \/ pc[b] \in {"failed", "err"})

\* a closure has just got a new sink although another closure owns the only
\* other sink and the pool is empty
C16_Witness ==
    \E b \in Blobs :
        /\ acquired[b] = 1
        /\ held[b] = Len(sinks)
        /\ pc[b] = "loop" /\ idx[b] = 1
        /\ pool = <<>>
        /\ CheckedOutElsewhere(b) # {}

(* -------------------------------- C17 --------------------------------- *)
\* streams that are some sink's writer
CurrentStreams == {sinks[s].writer : s \in DOMAIN sinks}

\* finish() has been called on the stream
Finalized(f) == f.state \in {"finished", "broken"}

\* C17: a stream that is a sink's writer is finished only by main's final
\* block, which main enters only when no closure is running; the writer of a
\* sink that is pooled or owned is open; and a line is only ever appended to
\* an open stream that is the writer of a live sink owned by the closure.
C17_OnlyDrainFinalizes ==
    /\ [][\A p \in CurrentStreams :
             (~Finalized(files[p]) /\ Finalized(files'[p])) =>
                 /\ mainpc = "drain" /\ MainThread \in poolLock
                 /\ Running = {}
                 /\ pool # <<>> /\ sinks[Head(pool)].writer = p]_vars
    /\ [](mainpc \in {"drain_lock", "drain"} => Running = {})
    /\ [](\A s \in LiveSinks : files[sinks[s].writer].state = "open")
    /\ [][\A p \in DOMAIN files :
             files'[p].recs # files[p].recs =>
                 /\ files[p].state = "open" /\ files[p].fin = 0
                 /\ \E b \in Blobs :
                       /\ held[b] \in LiveSinks
                       /\ sinks[held[b]].writer = p
                       /\ pc[b] = "loop" /\ pc'[b] = "incr"]_vars

\* the final block has finished one sink's writer and another sink is still
\* in the vector; a rotation had finished a retired stream before
C17_Witness ==
    /\ mainpc = "drain"
    /\ pool # <<>>
    /\ \E s \in DOMAIN sinks : sinks[s].state = "drained"
    /\ RetiredFiles # {}

(* -------------------------------- C18 --------------------------------- *)
\* sinks whose closure returned Err while it owned them
DroppedSinks == {s \in DOMAIN sinks : sinks[s].state = "dropped"}

\* C18: the step in which a closure that owns a sink returns Err leaves the
\* pool as it is and drops the sink; a dropped sink is never in the pool,
\* never owned by a closure, never changes again, and neither does its
\* writer, which nobody finishes: not the final block either.
C18_FailedSinkIsLost ==
    /\ [][\A b \in Blobs :
             (held[b] # 0 /\ pc'[b] = "failed") =>
                 /\ pool' = pool
                 /\ sinks'[held[b]].state = "dropped"
                 /\ \A c \in Blobs : held'[c] # held[b]]_vars
    /\ [](\A s \in DroppedSinks :
             /\ InPool(s) = {} /\ Holders(s) = {}
             /\ files[sinks[s].writer].state = "dropped"
             /\ files[sinks[s].writer].fin = 0)
    /\ [][\A s \in DroppedSinks :
             /\ sinks'[s] = sinks[s]
             /\ files'[sinks[s].writer] = files[sinks[s].writer]]_vars
    /\ [](DroppedSinks # {} => mainpc \notin {"drain_lock", "drain"})

\* main has returned Err: one closure failed in the middle of its block and
\* its sink is lost, while the sink another closure had pushed back was in
\* the pool to the end
C18_Witness ==
    /\ Done /\ result = "err"
    /\ \E s \in DroppedSinks : files[sinks[s].writer].recs # <<>>
    /\ \E t \in DOMAIN sinks : sinks[t].state = "abandoned"

(* -------------------------------- C19 --------------------------------- *)
OpenFiles == {p \in DOMAIN files : files[p].state = "open"}

\* closures between the File::create and the finish of a rotation
MidRotation == {b \in Blobs : pc[b] \in {"swap", "finish"}}

\* closures that found the vector empty and have not yet created their sink
Creating == {b \in Blobs : caller[b] = "new"}

\* C19: as long as no closure has returned Err and no I/O error occurred,
\* the sinks ever created, together with the closures about to create one,
\* are at most as many as the pool has threads; the streams open at one time
\* are one per sink plus one per rotation under way; the files ever created
\* are one per sink plus one per rotation, finished or under way.
C19_SinksAtMostThreads ==
    (Failed = {} /\ faults = 0) =>
        /\ Len(sinks) + Cardinality(Creating) <= nworkers
        /\ Cardinality(OpenFiles) = Cardinality(LiveSinks) + Cardinality(MidRotation)
        /\ Cardinality(OpenFiles) <= nworkers + Cardinality(MidRotation)
        /\ Cardinality(DOMAIN files) =
              Len(sinks) + Cardinality(RetiredFiles) + Cardinality(MidRotation)
        /\ Cardinality(DOMAIN files) <=
              nworkers + Cardinality(RetiredFiles) + Cardinality(MidRotation)

\* two threads have both found the vector empty and are both about to create
\* a sink
C19_Witness ==
    /\ nworkers = 2
    /\ \E b, c \in Blobs :
          /\ b # c
          /\ caller[b] = "new" /\ caller[c] = "new"
          /\ pc[b] = "create" /\ pc[c] = "create"
    /\ sinks = <<>>

(* -------------------------------- C20 --------------------------------- *)
Threads == Blobs \cup {MainThread}

\* C20: no thread is inside both locks at once; as long as main has not
\* returned some thread can step; under fair scheduling main returns; and
\* when it has, every blob handed to a closure is either done, a data block
\* with all its elements written and its sink handed back, or has failed.
C20_NoDeadlockAndTermination ==
    /\ [](\A t \in Threads : ~(t \in poolLock /\ t \in numLock))
    /\ [](~Done => ENABLED Next)
    /\ <>Done
    /\ [](Done =>
            /\ poolLock = {} /\ numLock = {}
            /\ \A b \in Blobs :
                  \/ pc[b] = "todo" /\ (b \notin DOMAIN blocks \/ full)
                  \/ /\ pc[b] = "ok"
                     /\ b \in DataBlobs =>
                           /\ Appended(b) = Len(Elems(b))
                           /\ acquired[b] = 1 /\ released[b] = 1
                  \/ pc[b] = "err" /\ released[b] = 0 /\ result = "err")

\* one thread is inside the pool lock while another is inside the counter
\* lock for a rotation
C20_Witness ==
    \E b, c \in Blobs :
        /\ b # c
        /\ b \in poolLock /\ pc[b] = "as_push"
        /\ c \in numLock /\ caller[c] = "cycle"
====
